---- MODULE Spec2Model ----
(***************************************************************************)
(* VideoRecorder (src/vite.config.ts, lines 14-295): a React component     *)
(* that acquires a camera stream, records it with a MediaRecorder for at   *)
(* most 60 seconds, shows a review screen and hands the clip to onSave.    *)
(*                                                                         *)
(* Each action is one browser task: a click handler, an interval           *)
(* callback, the continuation of the getUserMedia promise, or the task a   *)
(* MediaRecorder queues when it stops.  A task runs to completion and is   *)
(* followed by React's re-render and by the effects whose dependencies     *)
(* changed; all of that is one step.  State setters are no-ops once the    *)
(* component is unmounted, refs stay writable.                             *)
(***************************************************************************)
EXTENDS Integers, Sequences, FiniteSets, TLC

\* ---- bounds of the model ----
MaxRequests == 2      \* getUserMedia requests issued in one session (mount + switches)
MaxSaves == 2         \* Confirm Save clicks followed in one session

\* The countdown's start value: 60 in the source (useState(60) of line 28, the literals
\* 60 of lines 75 and 149).  The code reads it only through timeLeft > 0, timeLeft === 0,
\* timeLeft === 60 and 60 - timeLeft, so the model counts down from a smaller value.
Ceiling == 3

\* ---- program constants ----
Null == 0             \* null of a ref / of videoUrl

ReqIds == 1..MaxRequests          \* request i yields stream i, recorded by recorder i
EmergencyTypes == {"fire"}
Locations == {"loc1"}

VARIABLES
  life,               \* "init" (constructed), "mounted", "unmounted"
  emergencyType,      \* props
  location,
  recording,          \* useState, lines 27-33
  timeLeft,
  isMuted,
  facingMode,
  cameraError,
  reviewMode,
  videoUrl,           \* Null, or the id of the recorder whose onstop made the URL
  mediaRecorderRef,   \* useRef, lines 36-38
  chunksRef,
  streamRef,
  interval,           \* TRUE while the interval of the timer effect is scheduled
  requests,           \* getUserMedia calls: state and the render values startCamera closed over
  streams,            \* MediaStreams: tracks' readyState and audio tracks' enabled flag
  recorders,          \* MediaRecorders: state, queued stop task, history counters
  clips,              \* blob behind each object URL: the fragments it was built from
  onSaveCalls,        \* how many times the onSave prop was called
  onSaveArg,          \* the artifact of the latest onSave call
  switched,           \* history: recorders that were recording when the facing mode was switched
  discarded,          \* history: Discard was clicked
  stopPressed         \* history: the Stop Recording button stopped a recorder

compVars == <<recording, timeLeft, isMuted, facingMode, cameraError, reviewMode, videoUrl>>
refVars == <<mediaRecorderRef, chunksRef, streamRef>>
saveVars == <<onSaveCalls, onSaveArg>>
envVars == <<requests, streams, recorders, clips, saveVars>>
histVars == <<switched, discarded, stopPressed>>
vars == <<life, emergencyType, location, compVars, refVars, interval, envVars, histVars>>

Mounted == life = "mounted"

NoRequest == [state |-> "unused", facingMode |-> "environment", reviewMode |-> FALSE,
              recording |-> FALSE, atCeiling |-> TRUE]
NoArtifact == [url |-> Null, duration |-> 0, emergencyType |-> "", location |-> ""]
NoStream == [state |-> "none", audioEnabled |-> TRUE]
\* stops, onstops, ticks are history: stop requests taken, runs of onstop, interval
\* ticks that fell while this recorder was recording
NoRecorder == [state |-> "none", stopQueued |-> FALSE, stops |-> 0, onstops |-> 0, ticks |-> 0]

\* A state setter: ignored once the component is unmounted.
SetState(old, new) == IF Mounted THEN new ELSE old

\* Mutant of lines 158 and 211: the error branch is tested before the review branch.
View_ErrorFirst ==
  IF cameraError THEN "Error"
  ELSE IF reviewMode /\ videoUrl # Null THEN "Review"
  ELSE "Recording"

\* lines 158, 211, 223: which screen the component renders
View ==
  IF reviewMode /\ videoUrl # Null THEN "Review"
  ELSE IF cameraError THEN "Error"
  ELSE "Recording"

\* lines 84-89: the streams after stopCamera() (streamRef becomes null)
stopCamera(strs, ref) ==
  IF ref # Null THEN [strs EXCEPT ![ref].state = "stopped"] ELSE strs

\* MediaRecorder.stop(): inactive at once, the dataavailable/stop task queued
MediaRecorderStop(recs, r) ==
  [recs EXCEPT ![r].state = "inactive", ![r].stopQueued = TRUE, ![r].stops = @ + 1]

\* lines 126-130
stopRecording(recs, ref) ==
  IF ref # Null /\ recs[ref].state = "recording" THEN MediaRecorderStop(recs, ref) ELSE recs

\* line 75: the auto-start test, on the values startCamera closed over.  The closure's
\* timeLeft is read by this test alone, so a request keeps (timeLeft === 60) of its render.
AutoStart(c) == ~c.reviewMode /\ ~c.recording /\ c.atCeiling

\* Mutant of line 51: the interval is kept whenever recording is set.
TimerKeepsInterval_NoZeroTest(rec, tl) == rec

\* Mutant of line 55: the expiry test misses zero.
TimerStops_BelowZero(rec, tl) == tl < 0 /\ rec

\* lines 49-59: the timer effect, run after a render in which recording or timeLeft
\* changed.  Line 51: the interval is set up.  Line 55: stopRecording() is called.
TimerKeepsInterval(rec, tl) == rec /\ tl > 0

TimerStops(rec, tl) == tl = 0 /\ rec

TimerEffectInterval(changed, rec, tl) ==
  IF Mounted /\ changed THEN TimerKeepsInterval(rec, tl) ELSE interval

TimerEffectRecorders(changed, rec, tl, recs, ref) ==
  IF Mounted /\ changed /\ ~TimerKeepsInterval(rec, tl) /\ TimerStops(rec, tl)
  THEN stopRecording(recs, ref) ELSE recs

NextRequest == Cardinality({i \in ReqIds : requests[i].state # "unused"}) + 1

Init ==
  /\ life = "init"
  /\ emergencyType \in EmergencyTypes
  /\ location \in Locations
  /\ recording = FALSE
  /\ timeLeft = Ceiling
  /\ isMuted = FALSE
  /\ facingMode = "environment"
  /\ cameraError = FALSE
  /\ reviewMode = FALSE
  /\ videoUrl = Null
  /\ mediaRecorderRef = Null
  /\ chunksRef = <<>>
  /\ streamRef = Null
  /\ interval = FALSE
  /\ requests = [i \in ReqIds |-> NoRequest]
  /\ streams = [i \in ReqIds |-> NoStream]
  /\ recorders = [i \in ReqIds |-> NoRecorder]
  /\ clips = [i \in ReqIds |-> <<>>]
  /\ onSaveCalls = 0
  /\ onSaveArg = NoArtifact
  /\ switched = {}
  /\ discarded = FALSE
  /\ stopPressed = FALSE

\* lines 61-68, up to the await: the request as issued by the render with facing mode fm
NewRequest(fm) ==
  [state |-> "pending", facingMode |-> fm, reviewMode |-> reviewMode,
   recording |-> recording, atCeiling |-> (timeLeft = Ceiling)]

\* lines 41-46 on mount: startCamera(); the timer effect finds recording false
Mount ==
  /\ life = "init"
  /\ life' = "mounted"
  /\ streams' = stopCamera(streams, streamRef)
  /\ streamRef' = Null
  /\ cameraError' = FALSE
  /\ requests' = [requests EXCEPT ![NextRequest] = NewRequest(facingMode)]
  /\ interval' = FALSE
  /\ UNCHANGED <<emergencyType, location, recording, timeLeft, isMuted, facingMode,
                 reviewMode, videoUrl, mediaRecorderRef, chunksRef, recorders, clips,
                 saveVars, switched, discarded, stopPressed>>

\* lines 139-141, then the facing-mode effect: cleanup stopCamera(), startCamera()
toggleCamera ==
  /\ Mounted /\ View = "Recording"
  /\ NextRequest \in ReqIds
  /\ LET fm == IF facingMode = "user" THEN "environment" ELSE "user"
     IN /\ facingMode' = fm
        /\ requests' = [requests EXCEPT ![NextRequest] = NewRequest(fm)]
  /\ streams' = stopCamera(streams, streamRef)
  /\ streamRef' = Null
  /\ cameraError' = FALSE
  /\ switched' = switched \cup {r \in ReqIds : recorders[r].state = "recording"}
  /\ UNCHANGED <<life, emergencyType, location, recording, timeLeft, isMuted, reviewMode,
                 videoUrl, mediaRecorderRef, chunksRef, interval, recorders, clips,
                 saveVars, discarded, stopPressed>>

\* what the awaited getUserMedia call and the recorder start can do
Outcomes == {"rejected", "resolved", "ctorThrows", "startThrows"}

\* line 69: the stream ref after the promise resolved with stream s
StreamRefAfterResolve(s) == s

\* lines 65-81: the continuation of startCamera after the await, for request i.
\* "rejected": getUserMedia rejects.  "resolved": it resolves and, where line 75 calls
\* startRecordingProcess, that returns.  "ctorThrows": both MediaRecorder constructors
\* throw (lines 97, 100).  "startThrows": mediaRecorder.start() throws (line 122).
GumResolve(i, out) ==
  /\ requests[i].state = "pending"
  /\ out \in {"ctorThrows", "startThrows"} => AutoStart(requests[i])
  /\ requests' = [requests EXCEPT ![i] = [NoRequest EXCEPT !.state = "settled"]]
  /\ LET auto == AutoStart(requests[i])
         got == out # "rejected"
         assigned == got /\ auto /\ out # "ctorThrows"      \* lines 103-104 reached
         started == got /\ auto /\ out = "resolved"         \* lines 122-123 reached
         rec1 == IF started THEN SetState(recording, TRUE) ELSE recording
         changed == rec1 # recording
         recs1 == IF started THEN [recorders EXCEPT ![i].state = "recording"]
                  ELSE IF assigned THEN [recorders EXCEPT ![i].state = "inactive"]
                  ELSE recorders
         ref1 == IF assigned THEN i ELSE mediaRecorderRef
     IN /\ streams' = IF got THEN [streams EXCEPT ![i].state = "live"] ELSE streams
        /\ streamRef' = IF got THEN StreamRefAfterResolve(i) ELSE streamRef
        /\ mediaRecorderRef' = ref1
        /\ chunksRef' = IF assigned THEN <<>> ELSE chunksRef
        /\ recording' = rec1
        /\ cameraError' = IF out \in {"rejected", "ctorThrows", "startThrows"}
                          THEN SetState(cameraError, TRUE) ELSE cameraError
        /\ recorders' = TimerEffectRecorders(changed, rec1, timeLeft, recs1, ref1)
        /\ interval' = TimerEffectInterval(changed, rec1, timeLeft)
  /\ UNCHANGED <<life, emergencyType, location, timeLeft, isMuted, facingMode, reviewMode,
                 videoUrl, clips, saveVars, switched, discarded, stopPressed>>

\* lines 52-54: the interval callback, then the timer effect of the next render
Tick ==
  /\ interval
  /\ timeLeft' = timeLeft - 1
  /\ LET recs1 == [r \in ReqIds |->
                     IF recorders[r].state = "recording"
                     THEN [recorders[r] EXCEPT !.ticks = @ + 1] ELSE recorders[r]]
     IN recorders' = TimerEffectRecorders(TRUE, recording, timeLeft', recs1, mediaRecorderRef)
  /\ interval' = TimerEffectInterval(TRUE, recording, timeLeft')
  /\ UNCHANGED <<life, emergencyType, location, recording, isMuted, facingMode, cameraError,
                 reviewMode, videoUrl, refVars, requests, streams, clips, saveVars, switched,
                 discarded, stopPressed>>

\* lines 273-275: the Stop Recording button
clickStop ==
  /\ Mounted /\ View = "Recording"
  /\ recorders' = stopRecording(recorders, mediaRecorderRef)
  /\ stopPressed' = (stopPressed \/ recorders' # recorders)
  /\ UNCHANGED <<life, emergencyType, location, compVars, refVars, interval, requests,
                 streams, clips, saveVars, switched, discarded>>

\* The user agent stops a recorder whose stream has no live track left.
TracksEnded(r) ==
  /\ recorders[r].state = "recording"
  /\ streams[r].state = "stopped"
  /\ recorders' = MediaRecorderStop(recorders, r)
  /\ UNCHANGED <<life, emergencyType, location, compVars, refVars, interval, requests,
                 streams, clips, saveVars, switched, discarded, stopPressed>>

\* lines 106-110: ondataavailable of a blob of the given size, from recorder r
DataAvailable(chunks, r, size) == IF size > 0 THEN Append(chunks, r) ELSE chunks

\* The task a stopped recorder queued: dataavailable (lines 106-110) with everything r
\* gathered, then stop (lines 112-120), then the timer effect.
RecorderStopTask(r, size) ==
  /\ recorders[r].stopQueued
  /\ LET chunks1 == DataAvailable(chunksRef, r, size)
         rec1 == SetState(recording, FALSE)
     IN /\ chunksRef' = chunks1
        /\ clips' = [clips EXCEPT ![r] = chunks1]
        /\ recording' = rec1
        /\ interval' = TimerEffectInterval(rec1 # recording, rec1, timeLeft)
        /\ recorders' = TimerEffectRecorders(rec1 # recording, rec1, timeLeft,
                          [recorders EXCEPT ![r].stopQueued = FALSE, ![r].onstops = @ + 1],
                          mediaRecorderRef)
  /\ videoUrl' = SetState(videoUrl, r)
  /\ reviewMode' = SetState(reviewMode, TRUE)
  /\ streams' = stopCamera(streams, streamRef)
  /\ streamRef' = Null
  /\ UNCHANGED <<life, emergencyType, location, timeLeft, isMuted, facingMode, cameraError,
                 mediaRecorderRef, requests, saveVars, switched, discarded, stopPressed>>

\* lines 132-137
toggleMute ==
  /\ Mounted /\ View = "Recording"
  /\ IF streamRef # Null
     THEN /\ streams' = [streams EXCEPT ![streamRef].audioEnabled = ~@]
          /\ isMuted' = ~isMuted
     ELSE UNCHANGED <<streams, isMuted>>
  /\ UNCHANGED <<life, emergencyType, location, recording, timeLeft, facingMode, cameraError,
                 reviewMode, videoUrl, refVars, interval, requests, recorders, clips,
                 saveVars, switched, discarded, stopPressed>>

\* line 217: the Retry button of the error screen
Retry ==
  /\ Mounted /\ View = "Error"
  /\ cameraError' = FALSE
  /\ UNCHANGED <<life, emergencyType, location, recording, timeLeft, isMuted, facingMode,
                 reviewMode, videoUrl, refVars, interval, envVars, switched, discarded,
                 stopPressed>>

\* lines 191-192: the Discard button calls the optional onDiscard prop, nothing else
Discard ==
  /\ Mounted /\ View = "Review"
  /\ discarded' = TRUE
  /\ UNCHANGED <<life, emergencyType, location, compVars, refVars, interval, envVars,
                 switched, stopPressed>>

\* lines 145-152: the artifact (id and timestamp are clock readings, left out)
Artifact ==
  [url |-> videoUrl, duration |-> Ceiling - timeLeft,
   emergencyType |-> emergencyType, location |-> location]

\* lines 143-154, from the Confirm Save button (lines 197-198)
handleSave ==
  /\ Mounted /\ View = "Review"
  /\ onSaveCalls < MaxSaves
  /\ IF videoUrl # Null
     THEN onSaveCalls' = onSaveCalls + 1 /\ onSaveArg' = Artifact
     ELSE UNCHANGED saveVars
  /\ UNCHANGED <<life, emergencyType, location, compVars, refVars, interval, requests,
                 streams, recorders, clips, switched, discarded, stopPressed>>

\* The host removes the component: effect cleanups of lines 43-45 and 58.
Unmount ==
  /\ Mounted
  /\ life' = "unmounted"
  /\ streams' = stopCamera(streams, streamRef)
  /\ streamRef' = Null
  /\ interval' = FALSE
  /\ UNCHANGED <<emergencyType, location, compVars, mediaRecorderRef, chunksRef, requests,
                 recorders, clips, saveVars, switched, discarded, stopPressed>>

Next ==
  \/ Mount
  \/ toggleCamera
  \/ \E i \in ReqIds, out \in Outcomes : GumResolve(i, out)
  \/ Tick
  \/ clickStop
  \/ \E r \in ReqIds : TracksEnded(r)
  \/ \E r \in ReqIds, size \in {0, 1} : RecorderStopTask(r, size)
  \/ toggleMute
  \/ Retry
  \/ Discard
  \/ handleSave
  \/ Unmount

Spec == Init /\ [][Next]_vars

\* The capture lifecycle without the mute button: toggleMute reads and writes only isMuted
\* and the audio tracks' enabled flag, which no other handler reads.
CaptureNext ==
  \/ Mount
  \/ toggleCamera
  \/ \E i \in ReqIds, out \in Outcomes : GumResolve(i, out)
  \/ Tick
  \/ clickStop
  \/ \E r \in ReqIds : TracksEnded(r)
  \/ \E r \in ReqIds, size \in {0, 1} : RecorderStopTask(r, size)
  \/ Retry
  \/ Discard
  \/ handleSave
  \/ Unmount

CaptureSpec == Init /\ [][CaptureNext]_vars

\* The recording lifecycle alone: Discard and handleSave, like toggleMute, write only
\* variables no handler reads (discarded, onSaveCalls, onSaveArg), so leaving them out
\* changes no reachable value of the other variables.
RecordingNext ==
  \/ Mount
  \/ toggleCamera
  \/ \E i \in ReqIds, out \in Outcomes : GumResolve(i, out)
  \/ Tick
  \/ clickStop
  \/ \E r \in ReqIds : TracksEnded(r)
  \/ \E r \in ReqIds, size \in {0, 1} : RecorderStopTask(r, size)
  \/ Retry
  \/ Unmount

RecordingSpec == Init /\ [][RecordingNext]_vars

LiveStreams == {s \in ReqIds : streams[s].state = "live"}
Reviewing == reviewMode /\ videoUrl # Null

\* C1: in every reachable state at most one acquired media stream is live (acquired and
\* not yet stopped), also when the facing mode is switched while an earlier getUserMedia
\* request is still pending.
C1_AtMostOneLiveStream == Cardinality(LiveStreams) <= 1

\* C2: pressing Retry on the error screen issues a new camera acquisition: the step that
\* clears cameraError from the error screen leaves a getUserMedia request pending that
\* was not pending before.
C2_RetryReacquires ==
  [][(Mounted /\ View = "Error" /\ ~cameraError')
       => \E i \in ReqIds : requests'[i].state = "pending" /\ requests[i].state # "pending"]_vars

Fragments(clip) == {clip[k] : k \in 1..Len(clip)}

\* C3: after a facing switch during Recording the recording restarts on the new stream
\* from duration 0 (when the switch's request resolves, its recorder is recording, timeLeft
\* is back at the ceiling and the chunk buffer is empty), and no data gathered before the
\* switch is part of a clip that reaches review or the save callback.
C3_SwitchRestartsRecording ==
  /\ [](/\ videoUrl # Null => Fragments(clips[videoUrl]) \cap switched = {}
        /\ onSaveArg.url # Null => Fragments(clips[onSaveArg.url]) \cap switched = {})
  /\ [][\A i \in ReqIds :
          (requests[i].state = "pending" /\ requests[i].recording /\ streams'[i].state = "live")
            => (recorders'[i].state = "recording" /\ timeLeft' = Ceiling /\ chunksRef' = <<>>)]_vars

\* C4: within one mounted session the save callback is invoked at most once, whatever the
\* user clicks on the review screen.
C4_SaveAtMostOnce == onSaveCalls <= 1

\* C5: once Discard was clicked, the review screen is left, no stream is live, and the
\* save callback is not invoked any more.
C5_DiscardEndsSession ==
  /\ [](discarded => (~(Mounted /\ View = "Review") /\ LiveStreams = {}))
  /\ [][discarded => onSaveCalls' = onSaveCalls]_vars

\* C6: timeLeft stays within 0..Ceiling in every reachable state.
C6_TimeLeftInRange == timeLeft \in 0..Ceiling

\* C6 witness: the countdown reached zero while the recording flag was still set.
C6_Witness == timeLeft = 0 /\ recording /\ Mounted

\* The step in which the countdown reaches zero while recording is true.
ExpiryStep == timeLeft = 1 /\ timeLeft' = 0 /\ recording

\* C7: when timeLeft reaches 0 while recording is true, exactly one stop results per
\* recording: every recorder still recording has its stop requested in that step, and no
\* recorder's stop is requested, or its onstop handler run, more than once.
C7_ExactlyOneStop ==
  /\ [](\A r \in ReqIds : recorders[r].stops <= 1 /\ recorders[r].onstops <= recorders[r].stops)
  /\ [][ExpiryStep => \A r \in ReqIds :
          recorders[r].state = "recording" => recorders'[r].stops = 1]_vars

\* C8: after the Stop Recording button stopped the recorder, no tick changes timeLeft.
C8_ManualStopHaltsTimer == [][stopPressed => timeLeft' = timeLeft]_vars

\* A session in which the user never switches the camera; everything else stays possible.
\* The browser runs the mount effects, settles the getUserMedia promise, fires the
\* interval and runs a recorder's queued stop task: weak fairness on each.  Nothing makes
\* the user click or the host unmount.
NoSwitchNext ==
  \/ Mount
  \/ \E i \in ReqIds, out \in Outcomes : GumResolve(i, out)
  \/ Tick
  \/ clickStop
  \/ \E r \in ReqIds : TracksEnded(r)
  \/ \E r \in ReqIds, size \in {0, 1} : RecorderStopTask(r, size)
  \/ toggleMute
  \/ Retry
  \/ Discard
  \/ handleSave
  \/ Unmount

NoSwitchSpec ==
  /\ Init /\ [][NoSwitchNext]_vars
  /\ WF_vars(Mount)
  /\ WF_vars(\E i \in ReqIds, out \in Outcomes : GumResolve(i, out))
  /\ WF_vars(Tick)
  /\ WF_vars(\E r \in ReqIds, size \in {0, 1} : RecorderStopTask(r, size))

\* C9: mount, successful acquisition, auto-start, then Ceiling ticks with no facing switch:
\* unless the acquisition fails or the host unmounts the component, the review screen is
\* eventually shown, and an artifact saved with no manual stop has duration = Ceiling.
C9_ExpiryReachesReview ==
  /\ <>(Reviewing \/ cameraError \/ life = "unmounted")
  /\ [](onSaveCalls > 0 /\ ~stopPressed => onSaveArg.duration = Ceiling)

\* C9 witness: in review after the full countdown with no manual stop, an artifact saved.
C9_Witness ==
  /\ Mounted /\ Reviewing /\ timeLeft = 0 /\ ~stopPressed
  /\ onSaveCalls > 0 /\ onSaveArg.duration = Ceiling /\ recorders[onSaveArg.url].ticks = Ceiling

\* C10: the artifact passed to onSave has duration equal to the number of timer ticks that
\* fell while its clip's recorder was recording, within 0..Ceiling, and echoes the props.
C10_DurationIsRecordedTime ==
  onSaveCalls > 0 =>
    /\ onSaveArg.duration = recorders[onSaveArg.url].ticks
    /\ onSaveArg.duration \in 0..Ceiling
    /\ onSaveArg.emergencyType = emergencyType
    /\ onSaveArg.location = location

\* the MediaRecorders whose state is "recording"
ActiveRecorders == {r \in ReqIds : recorders[r].state = "recording"}

\* C11: in every reachable state where cameraError is true no capture session is active:
\* no stream is live, the recording flag is off and no recorder is recording.
C11_ErrorMeansNoSession ==
  cameraError => (LiveStreams = {} /\ ~recording /\ ActiveRecorders = {})

\* C12: in every reachable state where the mounted component is in Review (reviewMode
\* true and a clip URL exists) no camera/microphone stream is live.
C12_ReviewHasNoLiveStream == (Mounted /\ Reviewing) => LiveStreams = {}

\* C13: the clip finalized by a recorder's onstop is built from exactly the fragments
\* delivered to that recording, in delivery order.  start() is called without a timeslice
\* (line 122), so a recording delivers one fragment, with its stop: its clip is that
\* fragment, or empty when the fragment's size was 0, and holds no other recording's data.
C13_ClipIsOwnFragments == \A r \in ReqIds : clips[r] \in {<<>>, <<r>>}

\* C14: the rendered screen is selected from (reviewMode, clip present, cameraError) with
\* first-match precedence: Review when reviewMode is true and a clip URL exists, otherwise
\* Error when cameraError is true, otherwise Recording; Review wins over Error.
C14_ViewPrecedence ==
  /\ (reviewMode /\ videoUrl # Null) => View = "Review"
  /\ (~(reviewMode /\ videoUrl # Null) /\ cameraError) => View = "Error"
  /\ (~(reviewMode /\ videoUrl # Null) /\ ~cameraError) => View = "Recording"

\* C14 witness: the review screen is rendered while cameraError is true.
C14_Witness == Mounted /\ reviewMode /\ videoUrl # Null /\ cameraError /\ View = "Review"

\* a step in which a getUserMedia request is issued (line 65)
RequestIssued ==
  \E i \in ReqIds : requests'[i].state = "pending" /\ requests[i].state # "pending"

\* C15: the component never re-attempts acquisition on its own: a getUserMedia request is
\* issued only by the mount or by a facing switch, and a step taken from the error screen
\* that is not the Retry click (cameraError stays set) leaves the error screen shown and
\* issues no request.
C15_NoSelfRetry ==
  /\ [][RequestIssued => (life = "init" \/ facingMode' # facingMode)]_vars
  /\ [][(Mounted /\ View = "Error" /\ cameraError') => (View' = "Error" /\ ~RequestIssued)]_vars

\* C16: once the recording flag has left true, timeLeft is unchanged by every later step.
\* The flag leaves true only in onstop (line 118), which sets reviewMode in the same
\* handler (line 117), and no handler resets reviewMode: reviewMode marks the states
\* after the flag has left true.
C16_TimerFrozenAfterRecording == [][reviewMode => timeLeft' = timeLeft]_vars

\* the MediaRecorders on which start() returned (line 122)
StartedRecorders == {r \in ReqIds : recorders[r].state = "recording" \/ recorders[r].stops > 0}

\* C17: at most one MediaRecorder is in the recording state at any time, and recording is
\* started at most once in a session (two overlapping acquisitions never both start a
\* recorder).
C17_OneRecorderOneStart ==
  /\ Cardinality(ActiveRecorders) <= 1
  /\ Cardinality(StartedRecorders) <= 1

\* C18: after the component is unmounted no stream is live, and no step taken after the
\* unmount (a pending acquisition resolving) starts a recorder.
C18_UnmountReleasesAll ==
  /\ [](life = "unmounted" => LiveStreams = {})
  /\ [][life = "unmounted" => ActiveRecorders' \subseteq ActiveRecorders]_vars

\* C19: in every reachable state with a live stream, isMuted is true exactly when that
\* stream's audio tracks are disabled, also after a facing switch replaced the stream; and
\* a step taken with no live stream changes neither isMuted nor any track's enabled flag.
C19_MuteMatchesStream ==
  /\ [](\A s \in LiveStreams : isMuted <=> ~streams[s].audioEnabled)
  /\ [][LiveStreams = {} =>
          (isMuted' = isMuted
           /\ \A s \in ReqIds : streams'[s].audioEnabled = streams[s].audioEnabled)]_vars

====
